---- MODULE Spec2Model ----
(***************************************************************************)
(* Model of src/app.py: a Streamlit page in front of a DialoGPT model.     *)
(*                                                                         *)
(* Streamlit executes main() from top to bottom once per user interaction  *)
(* (a "script run"); st.rerun() ends the current run and starts another    *)
(* one in which every button reads False.  Each action below is one script *)
(* run, for one triggering widget.  The state is st.session_state, the     *)
(* widget values, the st.cache_resource cache of load_chatbot, and what    *)
(* the page shows.                                                         *)
(*                                                                         *)
(* A text is a sequence of pieces (words); the tokenizer maps pieces to    *)
(* token ids and back.  An optional value (None or a value) is a sequence  *)
(* of length 0 or 1.                                                       *)
(***************************************************************************)
EXTENDS Integers, Sequences, FiniteSets, TLC

VARIABLES
    chat_history,        \* st.session_state.chat_history: the turn list
    model_chat_history,  \* st.session_state.model_chat_history: token history
    conversation_count,  \* st.session_state.conversation_count
    selected_starter,    \* st.session_state.selected_starter (absent = None)
    user_input,          \* value of the text_input widget, key "user_input"
    max_length,          \* value of the "Max Response Length" slider
    cache,               \* st.cache_resource entry of load_chatbot()
    rerun,               \* st.rerun() was called: a script run is pending
    metric,              \* "Messages Exchanged" as last rendered
    error,               \* error box shown by the last script run
    run,                 \* history: what the last script run did
    gen                  \* history: the last call of generate_response

vars == <<chat_history, model_chat_history, conversation_count, selected_starter,
          user_input, max_length, cache, rerun, metric, error, run, gen>>

session == <<chat_history, model_chat_history, conversation_count>>

----------------------------------------------------------------------------
\* Bounds of the model

\* Most exchanges a session makes before Send is no longer offered.
MaxExchanges == 2

\* Most tokens the model adds to its input in one generation.
MaxGen == 1

----------------------------------------------------------------------------
\* Optional values

None == <<>>

Some(x) == <<x>>

----------------------------------------------------------------------------
\* Tokenizer

eos_token == "<|endoftext|>"

\* get_sample_conversations(): topic -> starter text
Topics == {"General Chat", "Technology", "Science", "Philosophy",
           "Creative Writing", "Problem Solving"}

get_sample_conversations ==
    [t \in Topics |->
        CASE t = "General Chat"     -> <<"Hello! How are you doing today?">>
          [] t = "Technology"       -> <<"What do you think about the future of artificial intelligence?">>
          [] t = "Science"          -> <<"Can you explain quantum computing in simple terms?">>
          [] t = "Philosophy"       -> <<"What do you think is the meaning of life?">>
          [] t = "Creative Writing" -> <<"Can you help me write a short story about space exploration?">>
          [] t = "Problem Solving"  -> <<"I'm facing a difficult decision at work. Can you help me think through it?">>]

\* The vocabulary: the token id of a piece is its index.
Vocab == <<eos_token, "hi", "ok",
           "Hello! How are you doing today?",
           "What do you think about the future of artificial intelligence?",
           "Can you explain quantum computing in simple terms?",
           "What do you think is the meaning of life?",
           "Can you help me write a short story about space exploration?",
           "I'm facing a difficult decision at work. Can you help me think through it?">>

TokenId(piece) == CHOOSE i \in DOMAIN Vocab : Vocab[i] = piece

eos_token_id == TokenId(eos_token)

\* load_chatbot sets pad_token = eos_token: the one special token.
SpecialIds == {eos_token_id}

\* tokenizer.encode(text)
Encode(text) == [i \in DOMAIN text |-> TokenId(text[i])]

IsSpecial(id) == id \in SpecialIds

NotSpecial(id) == ~IsSpecial(id)

\* tokenizer.decode(ids, skip_special_tokens=True)
Decode(ids) ==
    LET kept == SelectSeq(ids, NotSpecial)
    IN  [i \in DOMAIN kept |-> Vocab[kept[i]]]

----------------------------------------------------------------------------
\* generate_response

Min(a, b) == IF a < b THEN a ELSE b

\* Tokens the model emits in this model: the end-of-turn token and one word.
GenTokens == {eos_token_id, TokenId("ok")}

SeqsOfLen(S, lo, hi) == UNION {[1..k -> S] : k \in lo..hi}

\* new_user_input_ids = tokenizer.encode(user_input + tokenizer.eos_token)
NewUserInputIds(text) == Encode(Append(text, eos_token))

\* A mutant of BotInputIds: the prior history is dropped.
BotInputIdsNoHistory(history, new_ids) == new_ids

\* A mutant of BotInputIds: the operands of torch.cat are swapped.
BotInputIdsNewFirst(history, new_ids) ==
    IF history # None THEN new_ids \o history[1] ELSE new_ids

\* bot_input_ids = torch.cat([chat_history, new]) if chat_history is not None else new
BotInputIds(history, new_ids) ==
    IF history # None THEN history[1] \o new_ids ELSE new_ids

\* model.generate(bot_input_ids, max_length=...): the outputs it can return.
\* A decoder-only model returns its input followed by the new tokens, at most
\* max_length tokens in all; an input of max_length tokens or more is rejected
\* (ValueError), which is a failure of generate_response.
Generate(bot_input_ids, maxlen) ==
    IF Len(bot_input_ids) >= maxlen
    THEN {}
    ELSE {bot_input_ids \o g :
            g \in SeqsOfLen(GenTokens, 1, Min(MaxGen, maxlen - Len(bot_input_ids)))}

\* A mutant of ResponseOf: the whole output is decoded, input included.
ResponseOfWholeOutput(chat_history_ids, bot_input_ids) == Decode(chat_history_ids)

\* tokenizer.decode(chat_history_ids[:, bot_input_ids.shape[-1]:][0], skip_special_tokens=True)
ResponseOf(chat_history_ids, bot_input_ids) ==
    Decode(SubSeq(chat_history_ids, Len(bot_input_ids) + 1, Len(chat_history_ids)))

\* f"Sorry, I encountered an error: {str(e)}"
Apology == <<"Sorry, I encountered an error: ">>

\* A mutant of OnException: the caller's history is handed back.
OnExceptionKeepHistory(history) == <<Apology, history>>

\* except Exception as e: return f"Sorry, ...", None
OnException(history) == <<Apology, None>>

\* generate_response(tokenizer, model, chat_history, user_input, max_length):
\* the set of (response, chat_history_ids) pairs it can return.  Encoding,
\* generation and decoding can each raise; every exception ends in OnException.
generate_response(history, text, maxlen) ==
    LET bot_input_ids == BotInputIds(history, NewUserInputIds(text))
    IN  {OnException(history)} \cup
        {<<ResponseOf(out, bot_input_ids), Some(out)>> :
            out \in Generate(bot_input_ids, maxlen)}

----------------------------------------------------------------------------
\* load_chatbot

\* @st.cache_resource def load_chatbot(): the first call loads the model or
\* fails and returns (None, None); the return value is cached either way.
load_chatbot == IF cache = "empty" THEN {"loaded", "failed"} ELSE {cache}

\* A mutant of ModelAvailable: the result of load_chatbot is not tested.
ModelAvailableUnchecked(loaded) == TRUE

\* if tokenizer and model:
ModelAvailable(loaded) == loaded = "loaded"

----------------------------------------------------------------------------
\* main: the pieces of one script run

\* Slider: min_value=100, max_value=2000, value=1000
SliderMin == 100

SliderMax == 2000

SliderDefault == 1000

SliderValues == {SliderMin, SliderDefault, SliderMax}

\* Texts the user types into the text input.
TypedTexts == {<<>>, <<"hi">>, <<eos_token, "ok">>}

\* A mutant of ClearChatHistory: the token history is left as it is.
ClearChatHistoryKeepTokens ==
    [chat_history |-> <<>>, model_chat_history |-> model_chat_history,
     conversation_count |-> 0]

\* if st.button("Clear Chat History"): the three assignments
ClearChatHistory ==
    [chat_history |-> <<>>, model_chat_history |-> None, conversation_count |-> 0]

\* if hasattr(st.session_state, 'selected_starter'): user_input = selected_starter
StarterInput(starter, typed) == IF starter # None THEN starter[1] ELSE typed

\* A mutant of ShouldProcess: empty input is processed too.
ShouldProcessEmpty(send_button, starter, text) == send_button \/ starter # None

\* A mutant of ShouldProcess: a run processes the input whether or not Send
\* was clicked.
ShouldProcessAnyRun(send_button, starter, text) == text # <<>>

\* if (send_button or hasattr(st.session_state, 'selected_starter')) and user_input:
ShouldProcess(send_button, starter, text) ==
    (send_button \/ starter # None) /\ text # <<>>

\* A mutant of AppendTurn: the new turn replaces the last one.
AppendTurnOverwrite(turns, role, text) ==
    IF turns = <<>> THEN <<<<role, text>>>>
    ELSE [turns EXCEPT ![Len(turns)] = <<role, text>>]

\* st.session_state.chat_history.append((role, text))
AppendTurn(turns, role, text) == Append(turns, <<role, text>>)

\* st.session_state.conversation_count += 1
NextCount(n) == n + 1

NoGen == [called |-> FALSE, prev |-> None, text |-> <<>>, bot_input |-> <<>>,
          output |-> None, response |-> <<>>]

RunRecord(trigger, cause, text, processed) ==
    [trigger |-> trigger, cause |-> cause, input |-> text, processed |-> processed]

----------------------------------------------------------------------------
\* The state after the first script run of a session (page load).

Init ==
    /\ chat_history = <<>>
    /\ model_chat_history = None
    /\ conversation_count = 0
    /\ selected_starter = None
    /\ user_input = <<>>
    /\ max_length = SliderDefault
    /\ cache = "empty"
    /\ rerun = FALSE
    /\ metric = 0
    /\ error = "none"
    /\ run = RunRecord("load", "none", <<>>, FALSE)
    /\ gen = NoGen

\* Lines 193-210: load the model, append the exchange, or show the error.
ProcessInput(trigger, cause, text, maxlen) ==
    \E loaded \in load_chatbot :
        /\ cache' = loaded
        /\ IF ModelAvailable(loaded)
           THEN /\ Len(chat_history) < 2 * MaxExchanges
                /\ conversation_count < MaxExchanges
                /\ \E result \in generate_response(model_chat_history, text, maxlen) :
                     /\ chat_history' =
                            AppendTurn(AppendTurn(chat_history, "user", text),
                                       "ai", result[1])
                     /\ model_chat_history' = result[2]
                     /\ gen' = [called |-> TRUE,
                                prev |-> model_chat_history,
                                text |-> text,
                                bot_input |-> BotInputIds(model_chat_history,
                                                          NewUserInputIds(text)),
                                output |-> result[2],
                                response |-> result[1]]
                /\ conversation_count' = NextCount(conversation_count)
                /\ rerun' = TRUE
                /\ error' = "none"
                /\ run' = RunRecord(trigger, cause, text, TRUE)
           ELSE /\ error' = "load"
                /\ rerun' = FALSE
                /\ run' = RunRecord(trigger, cause, text, FALSE)
                /\ UNCHANGED <<session, gen>>

\* Lines 118 and 183-210: the part of a script run after the buttons, with
\* the values the text input and the slider hold in this run.
RunTail(send_button, trigger, cause, typed, maxlen) ==
    LET text == StarterInput(selected_starter, typed)
    IN  /\ metric' = Len(chat_history)
        /\ selected_starter' = None
        /\ IF ShouldProcess(send_button, selected_starter', text)
           THEN ProcessInput(trigger, cause, text, maxlen)
           ELSE /\ rerun' = FALSE
                /\ error' = "none"
                /\ run' = RunRecord(trigger, cause, text, FALSE)
                /\ UNCHANGED <<session, cache, gen>>

\* The user edits the text input: a script run with no button pressed.
TypeText ==
    /\ ~rerun
    /\ \E t \in TypedTexts \ {user_input} :
         /\ user_input' = t
         /\ RunTail(FALSE, "text", "none", t, max_length)
    /\ UNCHANGED max_length

\* The user moves the slider: a script run with no button pressed.
MoveSlider ==
    /\ ~rerun
    /\ \E v \in SliderValues \ {max_length} :
         /\ max_length' = v
         /\ RunTail(FALSE, "slider", "none", user_input, v)
    /\ UNCHANGED user_input

\* "Clear Chat History" is clicked: lines 111-115, the run ends at st.rerun().
ClickClear ==
    /\ ~rerun
    /\ chat_history' = ClearChatHistory.chat_history
    /\ model_chat_history' = ClearChatHistory.model_chat_history
    /\ conversation_count' = ClearChatHistory.conversation_count
    /\ rerun' = TRUE
    /\ error' = "none"
    /\ run' = RunRecord("clear", "none", <<>>, FALSE)
    /\ UNCHANGED <<selected_starter, user_input, max_length, cache, metric, gen>>

\* "Send Message" is clicked.
ClickSend ==
    /\ ~rerun
    /\ RunTail(TRUE, "send", "none", user_input, max_length)
    /\ UNCHANGED <<user_input, max_length>>

\* "Clear Input" is clicked: lines 166-168.  The assignment to the key of a
\* widget that this run has already created is refused by Streamlit with an
\* exception that ends the run.
ClickClearInputRefused ==
    /\ ~rerun
    /\ metric' = Len(chat_history)
    /\ error' = "api"
    /\ run' = RunRecord("clear_input", "none", user_input, FALSE)
    /\ UNCHANGED <<session, selected_starter, user_input, max_length, cache, rerun, gen>>

\* "Clear Input" is clicked and the assignment is applied: the input is
\* emptied and the run ends at st.rerun().
ClickClearInputApplied ==
    /\ ~rerun
    /\ metric' = Len(chat_history)
    /\ user_input' = <<>>
    /\ rerun' = TRUE
    /\ error' = "none"
    /\ run' = RunRecord("clear_input", "none", user_input, FALSE)
    /\ UNCHANGED <<session, selected_starter, max_length, cache, gen>>

\* A conversation-starter button is clicked: lines 177-180, the run ends at
\* st.rerun() before the starter is looked at.
ClickStarter ==
    /\ ~rerun
    /\ \E topic \in Topics :
         selected_starter' = Some(get_sample_conversations[topic])
    /\ metric' = Len(chat_history)
    /\ rerun' = TRUE
    /\ error' = "none"
    /\ run' = RunRecord("starter", "none", user_input, FALSE)
    /\ UNCHANGED <<session, user_input, max_length, cache, gen>>

\* The script run that st.rerun() asked for: every button reads False.
Rerun ==
    /\ rerun
    /\ RunTail(FALSE, "rerun", run.trigger, user_input, max_length)
    /\ UNCHANGED <<user_input, max_length>>

Next ==
    \/ TypeText
    \/ MoveSlider
    \/ ClickClear
    \/ ClickSend
    \/ ClickClearInputRefused
    \/ ClickClearInputApplied
    \/ ClickStarter
    \/ Rerun

Spec == Init /\ [][Next]_vars

----------------------------------------------------------------------------
\* Helpers of the properties

Range(seq) == {seq[i] : i \in DOMAIN seq}

IsPrefix(s, t) == Len(s) <= Len(t) /\ SubSeq(t, 1, Len(s)) = s

HistLen(history) == IF history = None THEN 0 ELSE Len(history[1])

LastTurn == chat_history[Len(chat_history)]

\* Even length, "user" and "ai" alternating from "user".
Alternates(turns) ==
    /\ Len(turns) % 2 = 0
    /\ \A i \in DOMAIN turns : turns[i][1] = (IF i % 2 = 1 THEN "user" ELSE "ai")

\* The blocks occur in seq one after the other, in this order.
RECURSIVE InOrder(_, _)
InOrder(blocks, seq) ==
    IF blocks = <<>> THEN TRUE
    ELSE LET b == Head(blocks)
         IN  \E k \in 1..(Len(seq) - Len(b) + 1) :
                /\ SubSeq(seq, k, k + Len(b) - 1) = b
                /\ InOrder(Tail(blocks), SubSeq(seq, k + Len(b), Len(seq)))

\* The encoded inputs of the user turns of `turns` after index `from`.
RECURSIVE EncodedInputs(_, _)
EncodedInputs(turns, from) ==
    IF from >= Len(turns) THEN <<>>
    ELSE IF turns[from + 1][1] = "user"
         THEN <<NewUserInputIds(turns[from + 1][2])>> \o EncodedInputs(turns, from + 1)
         ELSE EncodedInputs(turns, from + 1)

\* Index of the last apology turn, 0 when there is none.
LastApology ==
    LET at == {i \in DOMAIN chat_history : chat_history[i] = <<"ai", Apology>>}
    IN  IF at = {} THEN 0 ELSE CHOOSE i \in at : \A j \in at : j <= i

\* The last script run was a Send that called generate_response, and the
\* call ended in the except branch (the apology is what only that branch
\* returns) or returned a decoded response.
SendFailed == run.processed /\ gen.response = Apology

SendSucceeded == run.processed /\ gen.response # Apology

\* Every script run records its trigger in run: run'.trigger = "send" holds of
\* the ClickSend steps alone, "clear" of ClickClear, "rerun" of Rerun.

----------------------------------------------------------------------------
\* C1: with the model loaded, a Send with non-empty input appends exactly
\* ("user", text) and then one ("ai", response) turn to the turn list, so N
\* Sends from an empty session leave 2N turns; the script run that follows
\* the Send does not process the message again.
C1_SendAppendsOneExchange ==
    [][/\ (run'.trigger = "send" /\ user_input # <<>> /\ cache' = "loaded") =>
            /\ Len(chat_history') = Len(chat_history) + 2
            /\ SubSeq(chat_history', 1, Len(chat_history)) = chat_history
            /\ chat_history'[Len(chat_history) + 1] = <<"user", user_input>>
            /\ chat_history'[Len(chat_history) + 2][1] = "ai"
            /\ rerun'
       /\ run'.trigger = "rerun" => chat_history' = chat_history
      ]_vars

\* Two Sends from the empty session, the rerun of the second one done.
C1_Witness ==
    /\ run.trigger = "rerun" /\ run.cause = "send"
    /\ Len(chat_history) = 4
    /\ conversation_count = 2
    /\ LastApology = 0

\* C2: Clear Chat History leaves the turn list empty, the token history
\* absent and the conversation count 0, whatever the session held, and the
\* Messages Exchanged metric rendered by the run that follows shows 0.
C2_ClearResets ==
    /\ run.trigger = "clear" =>
            /\ chat_history = <<>>
            /\ model_chat_history = None
            /\ conversation_count = 0
    /\ (run.trigger = "rerun" /\ run.cause = "clear") =>
            /\ chat_history = <<>>
            /\ model_chat_history = None
            /\ conversation_count = 0
            /\ metric = 0

\* Cleared after two exchanges of which the second failed on a present history.
C2_Witness ==
    /\ run.trigger = "rerun" /\ run.cause = "clear"
    /\ gen.called /\ gen.prev # None /\ gen.response = Apology
    /\ metric = 0

C4_NeverShorterExceptClear ==
    [][\/ run'.trigger = "clear"
       \/ HistLen(model_chat_history') >= HistLen(model_chat_history)]_vars

\* C4, amended: no step but Clear Chat History or a Send whose generation
\* fails shortens the token history.
C4_ShorterOnlyOnClearOrFailure ==
    [][\/ run'.trigger = "clear"
       \/ (run'.processed /\ gen'.response = Apology)
       \/ HistLen(model_chat_history') >= HistLen(model_chat_history)]_vars

\* A successful Send on a present history: the history has grown.
C4_Witness ==
    /\ SendSucceeded
    /\ gen.prev # None
    /\ HistLen(model_chat_history) > HistLen(gen.prev)

\* C5: a failed generation yields the apology and an absent history; the Send
\* still appends the user turn and the ("ai", apology) turn, the session token
\* history becomes absent, and a Send that finds the history absent generates
\* from the newly encoded input alone.
C5_FailureResetsAndContinues ==
    /\ SendFailed =>
            /\ gen.output = None
            /\ model_chat_history = None
            /\ Len(chat_history) >= 2
            /\ chat_history[Len(chat_history) - 1] = <<"user", run.input>>
            /\ LastTurn = <<"ai", Apology>>
            /\ rerun
    /\ (run.processed /\ gen.prev = None) =>
            gen.bot_input = NewUserInputIds(run.input)

\* A Send that succeeds right after a Send that failed.
C5_Witness ==
    /\ SendSucceeded
    /\ gen.prev = None
    /\ Len(chat_history) = 4
    /\ chat_history[2] = <<"ai", Apology>>

\* C6: every step but Clear Chat History keeps the turn list as a prefix of
\* the new turn list.
C6_TurnListAppendOnly ==
    [][run'.trigger = "clear" \/ IsPrefix(chat_history, chat_history')]_vars

\* A second exchange appended behind the first.
C6_Witness ==
    /\ run.processed
    /\ Len(chat_history) = 4

\* C7 as stated: the text of every "ai" turn is the decoding of the tokens
\* the model produced beyond its input.
C7_EveryAiTurnIsDecodedSpan ==
    run.processed =>
        /\ gen.response # Apology
        /\ gen.output # None
        /\ LastTurn = <<"ai", Decode(SubSeq(gen.output[1], Len(gen.bot_input) + 1,
                                            Len(gen.output[1])))>>

\* C7, amended: the "ai" turn of a Send whose generation succeeded is the
\* decoding of the output positions beyond the generation input, special
\* tokens removed; the "ai" turn of a failed one is the apology; no "ai" turn
\* but an apology holds the end-of-turn marker.
C7_AiTurnIsDecodedSpanOrApology ==
    /\ SendSucceeded =>
            /\ IsPrefix(gen.bot_input, gen.output[1])
            /\ LastTurn = <<"ai", Decode(SubSeq(gen.output[1], Len(gen.bot_input) + 1,
                                                Len(gen.output[1])))>>
    /\ SendFailed => LastTurn = <<"ai", Apology>>
    /\ \A i \in DOMAIN chat_history :
            chat_history[i][1] = "ai" =>
                \/ chat_history[i][2] = Apology
                \/ eos_token \notin Range(chat_history[i][2])

\* A response decoded from an output that ends in the end-of-turn token, on
\* an input whose user text held the marker too.
C7_Witness ==
    /\ SendSucceeded
    /\ eos_token \in Range(run.input)
    /\ gen.output[1][Len(gen.output[1])] = eos_token_id
    /\ LastTurn[1] = "ai"

\* C8 as stated: with the model loaded, the run that consumes a clicked
\* starter calls the Response Generator with it and the turn list gains
\* ("user", starter) and an "ai" turn; the flag is consumed.
C8_StarterIsSubmitted ==
    (run.trigger = "rerun" /\ run.cause = "starter" /\ cache = "loaded"
        /\ conversation_count < MaxExchanges) =>
        /\ selected_starter = None
        /\ run.processed
        /\ Len(chat_history) >= 2
        /\ chat_history[Len(chat_history) - 1] = <<"user", run.input>>
        /\ LastTurn[1] = "ai"

\* C9 as stated: a successful generation stores the model output, which
\* starts with the previous history followed by the encoded input; a present
\* token history holds, in order, the encoded input of every user turn of
\* the turn list.
C9_HistoryHoldsEveryTurn ==
    /\ SendSucceeded =>
            /\ model_chat_history = gen.output
            /\ IsPrefix((IF gen.prev = None THEN <<>> ELSE gen.prev[1])
                            \o NewUserInputIds(run.input),
                        model_chat_history[1])
    /\ model_chat_history # None =>
            InOrder(EncodedInputs(chat_history, 0), model_chat_history[1])

\* C9, amended: as C9, for the user turns recorded since the last Clear or
\* the last failed generation.
C9_HistoryHoldsTurnsSinceReset ==
    /\ SendSucceeded =>
            /\ model_chat_history = gen.output
            /\ IsPrefix((IF gen.prev = None THEN <<>> ELSE gen.prev[1])
                            \o NewUserInputIds(run.input),
                        model_chat_history[1])
    /\ model_chat_history # None =>
            InOrder(EncodedInputs(chat_history, LastApology), model_chat_history[1])

\* Two successful exchanges: the history holds both encoded inputs.
C9_Witness ==
    /\ SendSucceeded
    /\ gen.prev # None
    /\ LastApology = 0
    /\ Len(EncodedInputs(chat_history, LastApology)) = 2

\* C10: after every script run the turn list has even length and alternates
\* "user", "ai" from "user", and conversation_count is half its length; a
\* Send with empty input changes none of turn list, token history and count.
C10_WellFormedSession ==
    /\ [](Alternates(chat_history) /\ 2 * conversation_count = Len(chat_history))
    /\ [][(run'.trigger = "send" /\ user_input = <<>>) => UNCHANGED session]_vars

\* A Send with empty input in a session that holds an exchange.
C10_Witness ==
    /\ run.trigger = "send"
    /\ run.input = <<>>
    /\ Len(chat_history) >= 2
    /\ model_chat_history # None

====
